---- MODULE Spec2Model ----
(***************************************************************************)
(* Blackjack client/server of src/server.js: the express routes that keep  *)
(* a games table and deal through the deck-of-cards API, and the browser   *)
(* script that scores the piles and sequences a round.                     *)
(*                                                                         *)
(* A card is modelled by its `value` string; its suit is only ever copied  *)
(* into the page text.  undefined is modelled by Undefined (numbers) and   *)
(* NoName (strings).                                                       *)
(***************************************************************************)
EXTENDS Integers, Sequences, FiniteSets, Bags, TLC

\* ---------------------------------------------------------------- bounds
\* longest pile given to scorePlayer on its own
MaxLen == 4
\* client operations (awaiting handlers and pending timers) alive at once
MaxTasks == 2
\* decks the card API mints in one run
MaxDecks == 2
\* cards left on the deck when the dealer's turn is run on its own
StandDeckLen == 5

\* ------------------------------------------------------------- constants
DEALER == "dealer"
PLAYER == "player"
DealerStandsAt == 17
BustAbove == 21

Undefined == 0 - 1
NoName == "undefined"

NumericValues == {"0", "2", "3", "4", "5", "6", "7", "8", "9", "10"}
FaceValues == {"JACK", "QUEEN", "KING"}
CardValues == NumericValues \cup FaceValues \cup {"ACE"}
\* The shuffles the card API deals from in the game runs: the top cards of a
\* 52-card deck, first drawn first.  A draw below the modelled top is not served.
Shuffles ==
  { <<"KING", "QUEEN", "KING", "JACK", "QUEEN", "JACK">>,
    <<"5", "2", "6", "6", "5", "KING">>,
    <<"ACE", "0", "9", "7", "ACE", "3">> }
GameNames == {"g1"}
\* the values of the cards when the dealer's turn is run on its own
StandValues == {"ACE", "2", "KING"}
\* the player's pile when the dealer's turn is run on its own
StandPlayerPile == <<"KING", "2">>

VARIABLES
  scoreIn,    \* the pile handed to scorePlayer when it is exercised alone
  scoreOut,   \* what it returned for scoreIn, Undefined before the first call
  scoreOp,    \* how scoreIn was last changed before that call
  game,       \* the browser's global `game` object
  entered,    \* login-wrapper hidden and game-wrapper shown
  display,    \* the card wrappers and the info banner of the page
  alertBox,     \* the alert() box shown last
  tasks,      \* bag of client operations in flight, each with its request
  table,      \* rows of the games table, in insertion order
  decks       \* the card API's decks: decks[d] holds the piles of deck d

vars == <<scoreIn, scoreOut, scoreOp, game, entered, display, alertBox, tasks, table, decks>>
scoreVars == <<scoreIn, scoreOut, scoreOp>>
gameVars == <<game, entered, display, alertBox, tasks, table, decks>>

\* ------------------------------------------------------------ scorePlayer
\* !isNaN(card.value)
isNumeric(value) == value \in NumericValues

\* parseInt(card.value) on a numeric value
parseInt(value) ==
  CASE value = "0" -> 0 [] value = "2" -> 2 [] value = "3" -> 3
    [] value = "4" -> 4 [] value = "5" -> 5 [] value = "6" -> 6
    [] value = "7" -> 7 [] value = "8" -> 8 [] value = "9" -> 9
    [] value = "10" -> 10

\* a ten that is not special-cased when it arrives as 0
addCardZeroIsZero(acc, value) ==
  IF isNumeric(value)
    THEN [acc EXCEPT !.score = @ + parseInt(value)]
    ELSE IF value \in FaceValues
      THEN [acc EXCEPT !.score = @ + 10]
      ELSE [score |-> acc.score + 11, aceCount |-> acc.aceCount + 1]

\* body of the forEach callback: one card added to score and aceCount
addCard(acc, value) ==
  IF isNumeric(value)
    THEN [acc EXCEPT !.score = @ + (IF parseInt(value) = 0 THEN 10 ELSE parseInt(value))]
    ELSE IF value = "KING" \/ value = "QUEEN" \/ value = "JACK"
      THEN [acc EXCEPT !.score = @ + 10]
      ELSE [score |-> acc.score + 11, aceCount |-> acc.aceCount + 1]

\* pile.forEach(...) from score = 0, aceCount = 0
RECURSIVE forEachCard(_, _)
forEachCard(acc, cards) ==
  IF cards = <<>> THEN acc ELSE forEachCard(addCard(acc, Head(cards)), Tail(cards))

\* an `if` where the code loops: at most one ace is counted as 1
demoteOneAce(score, aceCount) ==
  IF score > BustAbove /\ aceCount > 0 THEN score - 10 ELSE score

\* a loop that takes 11 off for every ace it demotes
RECURSIVE demoteAcesByEleven(_, _)
demoteAcesByEleven(score, aceCount) ==
  IF score > BustAbove /\ aceCount > 0
    THEN demoteAcesByEleven(score - 11, aceCount - 1)
    ELSE score

\* while (score > 21 && aceCount > 0) { score -= 10; aceCount -= 1; }
RECURSIVE demoteAces(_, _)
demoteAces(score, aceCount) ==
  IF score > BustAbove /\ aceCount > 0
    THEN demoteAces(score - 10, aceCount - 1)
    ELSE score

\* an ace decides between 11 and 1 when it is met, by the total so far
RECURSIVE scoreAceOnSight(_, _)
scoreAceOnSight(total, cards) ==
  IF cards = <<>> THEN total
  ELSE LET value == Head(cards)
           more == IF value = "ACE"
                     THEN (IF total + 11 > BustAbove THEN 1 ELSE 11)
                     ELSE addCard([score |-> 0, aceCount |-> 0], value).score
       IN scoreAceOnSight(total + more, Tail(cards))

scoreCardsAceOnSight(cards) == scoreAceOnSight(0, cards)

\* scorePlayer once the pile is chosen
scoreCards(cards) ==
  LET acc == forEachCard([score |-> 0, aceCount |-> 0], cards)
  IN demoteAces(acc.score, acc.aceCount)

\* scorePlayer(player), reading the piles of game object g
scorePlayer(g, player) ==
  scoreCards(IF player = PLAYER THEN g.playerPile ELSE g.dealerPile)


\* ------------------------------------------------------------ game object
\* let game = {}; id tells the objects that `game` has named apart
EmptyGame ==
  [id |-> 0, gameName |-> NoName, deckId |-> Undefined,
   gamesWon |-> Undefined, gamesLost |-> Undefined,
   playerPile |-> <<>>, dealerPile |-> <<>>,
   scores |-> [player |-> Undefined, dealer |-> Undefined]]

\* game = await gameData.json(): a new object made of the body of getOrCreate
\* or endGame (scores: {}) takes the place of g
snapshot(g, t) ==
  [id |-> g.id + 1, gameName |-> t.gameName, deckId |-> t.deckId,
   gamesWon |-> t.gamesWon, gamesLost |-> t.gamesLost,
   playerPile |-> t.playerPile, dealerPile |-> t.dealerPile,
   scores |-> [player |-> Undefined, dealer |-> Undefined]]

\* an initGame that keeps the scores field of the answer
initGameKeepsAnswer(g) == g

\* initGame(): both scores recomputed from the piles
initGame(g) ==
  [g EXCEPT !.scores = [player |-> scorePlayer(g, PLAYER),
                        dealer |-> scorePlayer(g, DEALER)]]

\* the text of one card div: a 0 is written as 10
cardText(value) == IF value = "0" THEN "10" ELSE value

\* updateGameDisplay(): both wrappers redrawn from the piles, banner rewritten
updateGameDisplay(g) ==
  [dealer |-> [i \in 1..Len(g.dealerPile) |-> cardText(g.dealerPile[i])],
   player |-> [i \in 1..Len(g.playerPile) |-> cardText(g.playerPile[i])],
   banner |-> <<g.gamesWon, g.gamesLost>>]

\* clearGameDisplay(): both wrappers emptied, banner kept
clearGameDisplay(d) == [d EXCEPT !.dealer = <<>>, !.player = <<>>]

\* ------------------------------------------------------------------ tasks
\* One client operation between two of its awaits, together with the HTTP
\* request it waits for: the request's parameters, the locals of the route
\* serving it and, at pc "done", the response body.  n counts the opening
\* cards a route has dealt and the turns stand()'s loop has made; target is the
\* object an assignment to game.playerPile or game.dealerPile will write to.
Task(op, pc, gameName, deckId, who) ==
  [op |-> op, pc |-> pc, gameName |-> gameName, deckId |-> deckId, who |-> who,
   n |-> 0, card |-> "", gamesWon |-> Undefined, gamesLost |-> Undefined,
   playerPile |-> <<>>, dealerPile |-> <<>>, scored |-> Undefined,
   target |-> Undefined]

\* a setTimeout callback not yet run; scored remembers the player score that
\* hit() stored just before scheduling it (the closure itself holds nothing)
Timer(op, scored) ==
  [Task(op, "timeout", NoName, Undefined, "") EXCEPT !.scored = scored]

Running == BagToSet(tasks)
Spawn(bag, t) == bag (+) SetToBag({t})
Finish(bag, t) == bag (-) SetToBag({t})
Become(bag, t, u) == Spawn(Finish(bag, t), u)
InFlight == BagCardinality(tasks)

\* ------------------------------------------------------------ games table
\* CREATE TABLE games: gameName unique, counters default 0
NewRow(gameName, deckId) ==
  [gameName |-> gameName, deckId |-> deckId, gamesWon |-> 0, gamesLost |-> 0]

\* SELECT ... FROM games WHERE gameName = ?
RECURSIVE SelectGame(_, _)
SelectGame(rows, gameName) ==
  IF rows = <<>> THEN <<>>
  ELSE IF Head(rows).gameName = gameName
    THEN <<Head(rows)>> \o SelectGame(Tail(rows), gameName)
    ELSE SelectGame(Tail(rows), gameName)

\* does the unique key refuse the INSERT
DuplicateKey(rows, gameName) == SelectGame(rows, gameName) # <<>>

\* UPDATE games SET deckId = ?, gamesWon|gamesLost = ... + 1 WHERE gameName = ?
UpdateGame(rows, gameName, deckId, winner) ==
  [i \in 1..Len(rows) |->
     IF rows[i].gameName = gameName
       THEN IF winner = "player"
              THEN [rows[i] EXCEPT !.deckId = deckId, !.gamesWon = @ + 1]
              ELSE [rows[i] EXCEPT !.deckId = deckId, !.gamesLost = @ + 1]
       ELSE rows[i]]

\* ---------------------------------------------------------------- card API
\* /new/shuffle/?deck_count=1: a shuffled deck with no pile yet
NewDeck(shuffle) == [cards |-> shuffle, player |-> <<>>, dealer |-> <<>>]

\* the opening deal: player, dealer, player, dealer
DealOrder == <<"player", "dealer", "player", "dealer">>

\* a draw route that hands every card to the player
HandOfDrawToPlayer(t) == IF t.op \in {"hit", "stand"} THEN PLAYER ELSE DealOrder[t.n]

\* the hand the card being drawn for request t goes to
HandOf(t) == IF t.op \in {"hit", "stand"} THEN t.who ELSE DealOrder[t.n]

\* /draw/?count=1 can answer with a card of deck d
CanDraw(d) == d \in 1..Len(decks) /\ decks[d].cards # <<>>

\* ----------------------------------------------- server: /getOrCreate route
\* an INSERT that books the new game as already won once
InsertGameAsWon(rows, gameName, deckId) ==
  Append(rows, [NewRow(gameName, deckId) EXCEPT !.gamesWon = 1])

\* INSERT INTO games (gameName, deckId) VALUES (?, ?)
InsertGame(rows, gameName, deckId) == Append(rows, NewRow(gameName, deckId))

\* const response = await query(SELECT ...); if (response.length == 0) ...
GetOrCreateSelect(t) ==
  /\ t.op = "createOrJoinGame" /\ t.pc = "sent"
  /\ LET response == SelectGame(table, t.gameName)
     IN tasks' = Become(tasks, t,
          IF Len(response) = 0
            THEN [t EXCEPT !.pc = "newDeck", !.gamesWon = 0, !.gamesLost = 0]
            ELSE [t EXCEPT !.pc = "listPlayer",
                           !.gameName = response[1].gameName,
                           !.deckId = response[1].deckId,
                           !.gamesWon = response[1].gamesWon,
                           !.gamesLost = response[1].gamesLost])
  /\ UNCHANGED <<scoreVars, game, entered, display, alertBox, table, decks>>

\* axios.get(.../new/shuffle/?deck_count=1) of a game that did not exist
GetOrCreateNewDeck(t) ==
  /\ t.op = "createOrJoinGame" /\ t.pc = "newDeck"
  /\ Len(decks) < MaxDecks
  /\ \E shuffle \in Shuffles : decks' = Append(decks, NewDeck(shuffle))
  /\ tasks' = Become(tasks, t, [t EXCEPT !.pc = "insert", !.deckId = Len(decks) + 1])
  /\ UNCHANGED <<scoreVars, game, entered, display, alertBox, table>>

\* await query(INSERT ...): a refused INSERT rejects, the handler ends there
\* and its request is never answered
GetOrCreateInsert(t) ==
  /\ t.op = "createOrJoinGame" /\ t.pc = "insert"
  /\ IF DuplicateKey(table, t.gameName)
       THEN /\ tasks' = Finish(tasks, t)
            /\ table' = table
       ELSE /\ table' = InsertGame(table, t.gameName, t.deckId)
            /\ tasks' = Become(tasks, t, [t EXCEPT !.pc = "draw", !.n = 1])
  /\ UNCHANGED <<scoreVars, game, entered, display, alertBox, decks>>

\* --------------------------------------------------- server: /endGame route
\* axios.get(.../new/shuffle/?deck_count=1) at the end of a game
EndGameNewDeck(t) ==
  /\ t.op = "endGame" /\ t.pc = "sent"
  /\ Len(decks) < MaxDecks
  /\ \E shuffle \in Shuffles : decks' = Append(decks, NewDeck(shuffle))
  /\ tasks' = Become(tasks, t, [t EXCEPT !.pc = "update", !.deckId = Len(decks) + 1])
  /\ UNCHANGED <<scoreVars, game, entered, display, alertBox, table>>

\* await query(UPDATE ...) with the winner of the request
EndGameUpdate(t) ==
  /\ t.op = "endGame" /\ t.pc = "update"
  /\ table' = UpdateGame(table, t.gameName, t.deckId, t.who)
  /\ tasks' = Become(tasks, t, [t EXCEPT !.pc = "draw", !.n = 1])
  /\ UNCHANGED <<scoreVars, game, entered, display, alertBox, decks>>

\* the closing SELECT and res.json; response[0] of no row throws
EndGameSelect(t) ==
  /\ t.op = "endGame" /\ t.pc = "select"
  /\ LET response == SelectGame(table, t.gameName)
     IN tasks' = IF Len(response) = 0
          THEN Finish(tasks, t)
          ELSE Become(tasks, t, [t EXCEPT !.pc = "done",
                                          !.gamesWon = response[1].gamesWon,
                                          !.gamesLost = response[1].gamesLost])
  /\ UNCHANGED <<scoreVars, game, entered, display, alertBox, table, decks>>

\* --------------------------------------- server: drawCardToHand, getPileData
\* drawCardToHand, first await: /draw/?count=1 takes the top card of the deck
drawCardToHand(t) ==
  /\ \/ t.pc = "draw"
     \/ t.op \in {"hit", "stand"} /\ t.pc = "sent"
  /\ CanDraw(t.deckId)
  /\ decks' = [decks EXCEPT ![t.deckId].cards = Tail(@)]
  /\ tasks' = Become(tasks, t, [t EXCEPT !.pc = "add", !.card = Head(decks[t.deckId].cards)])
  /\ UNCHANGED <<scoreVars, game, entered, display, alertBox, table>>

\* drawCardToHand, second await: /pile/${hand}/add/ puts the card on the pile;
\* then the next card of the opening deal, or the pile listing
drawCardToHandAdd(t) ==
  /\ t.pc = "add"
  /\ decks' = [decks EXCEPT ![t.deckId][HandOf(t)] = Append(@, t.card)]
  /\ tasks' = Become(tasks, t,
       IF t.op \in {"hit", "stand"} THEN [t EXCEPT !.pc = "list", !.card = ""]
       ELSE IF t.n < Len(DealOrder) THEN [t EXCEPT !.pc = "draw", !.card = "", !.n = @ + 1]
       ELSE [t EXCEPT !.pc = "listPlayer", !.card = "", !.n = 0])
  /\ UNCHANGED <<scoreVars, game, entered, display, alertBox, table>>

\* getPileData(deckId, hand): the cards of the pile.  The card API makes a
\* pile when a card is first added to it; res.piles[hand] of a pile it does not
\* know throws, the handler ends there and its request is never answered.
getPileData(t, hand, pc) ==
  LET cards == decks[t.deckId][hand]
  IN IF cards = <<>>
       THEN Finish(tasks, t)
       ELSE Become(tasks, t,
              IF hand = PLAYER THEN [t EXCEPT !.pc = pc, !.playerPile = cards]
                               ELSE [t EXCEPT !.pc = pc, !.dealerPile = cards])

\* const playerPileData = await getPileData(deckId, 'player')
ListPlayerPile(t) ==
  /\ t.pc = "listPlayer"
  /\ tasks' = getPileData(t, PLAYER, "listDealer")
  /\ UNCHANGED <<scoreVars, game, entered, display, alertBox, table, decks>>

\* const dealerPileData = await getPileData(deckId, 'dealer'); getOrCreate
\* answers next, endGame selects
ListDealerPile(t) ==
  /\ t.pc = "listDealer"
  /\ tasks' = getPileData(t, DEALER, IF t.op = "endGame" THEN "select" ELSE "done")
  /\ UNCHANGED <<scoreVars, game, entered, display, alertBox, table, decks>>

\* res.json(await getPileData(req.params.deckId, req.params.player))
DrawRouteList(t) ==
  /\ t.pc = "list"
  /\ tasks' = getPileData(t, t.who, "done")
  /\ UNCHANGED <<scoreVars, game, entered, display, alertBox, table, decks>>

\* The first awaited query() or axios.get() of a route rejects (the store or
\* the card API is not reachable).  Nothing catches it: the handler ends there,
\* the request is never answered and the operation of the page never resumes.
\* A later await that rejects leaves the page the same way.
RequestFails(t) ==
  /\ t.pc = "sent"
  /\ tasks' = Finish(tasks, t)
  /\ UNCHANGED <<scoreVars, game, entered, display, alertBox, table, decks>>

\* ------------------------------------------------------- client: the page
\* click on enter-game-button: createOrJoinGame() up to its fetch
createOrJoinGame(gameName) ==
  /\ ~entered
  /\ InFlight < MaxTasks
  /\ tasks' = Spawn(tasks, Task("createOrJoinGame", "sent", gameName, Undefined, ""))
  /\ UNCHANGED <<scoreVars, game, entered, display, alertBox, table, decks>>

\* createOrJoinGame() after its awaits: game replaced, wrappers switched, initGame()
createOrJoinGameResume(t) ==
  /\ t.op = "createOrJoinGame" /\ t.pc = "done"
  /\ game' = initGame(snapshot(game, t))
  /\ entered' = TRUE
  /\ display' = updateGameDisplay(game')
  /\ tasks' = Finish(tasks, t)
  /\ UNCHANGED <<scoreVars, alertBox, table, decks>>

\* click on hit-button: hit() up to its fetch of /game/${game.deckId}/draw/player
hit ==
  /\ entered
  /\ InFlight < MaxTasks
  /\ tasks' = Spawn(tasks, Task("hit", "sent", NoName, game.deckId, PLAYER))
  /\ UNCHANGED <<scoreVars, game, entered, display, alertBox, table, decks>>

\* game.playerPile = await ..., game.dealerPile = await ...: the object is the
\* one `game` named before the await, so the pile is lost when `game` was
\* replaced while the body was read
putPile(g, t, hand) ==
  IF t.target # g.id THEN g
  ELSE IF hand = PLAYER THEN [g EXCEPT !.playerPile = t.playerPile]
  ELSE [g EXCEPT !.dealerPile = t.dealerPile]

\* a fetch of the draw route is answered: the left side of the assignment that
\* follows is evaluated, then the body is awaited
drawResponse(t) ==
  /\ t.op \in {"hit", "stand"} /\ t.pc = "done"
  /\ tasks' = Become(tasks, t, [t EXCEPT !.pc = "json", !.target = game.id])
  /\ UNCHANGED <<scoreVars, game, entered, display, alertBox, table, decks>>

\* hit() after its awaits: pile replaced, page redrawn, score stored, check deferred
hitResume(t) ==
  /\ t.op = "hit" /\ t.pc = "json"
  /\ LET drawn == putPile(game, t, PLAYER)
     IN /\ display' = updateGameDisplay(drawn)
        /\ game' = [drawn EXCEPT !.scores[PLAYER] = scorePlayer(drawn, PLAYER)]
  /\ tasks' = Become(tasks, t, Timer("hitTimeout", game'.scores[PLAYER]))
  /\ UNCHANGED <<scoreVars, entered, alertBox, table, decks>>

\* the winner hit's deferred check calls endGame with; "" when it calls nothing
hitWinner(g) ==
  IF g.scores[PLAYER] > BustAbove THEN DEALER
  ELSE IF g.scores[PLAYER] = BustAbove THEN PLAYER
  ELSE ""

\* a tie handed to the player
standWinnerTieToPlayer(g) ==
  IF g.scores[DEALER] > BustAbove \/ g.scores[DEALER] <= g.scores[PLAYER]
    THEN PLAYER ELSE DEALER

\* the winner stand's deferred comparison calls endGame with
standWinner(g) ==
  IF g.scores[DEALER] > BustAbove \/ g.scores[DEALER] < g.scores[PLAYER]
    THEN PLAYER ELSE DEALER

\* endGame(gameWinner) up to its fetch of /game/${game.gameName}/endGame/${gameWinner}
endGame(t, gameWinner) ==
  /\ display' = clearGameDisplay(display)
  /\ tasks' = Become(tasks, t, Task("endGame", "sent", game.gameName, Undefined, gameWinner))

\* the callback hit() gave to setTimeout
hitTimeout(t) ==
  /\ t.op = "hitTimeout"
  /\ LET winner == hitWinner(game)
     IN IF winner = ""
          THEN /\ tasks' = Finish(tasks, t)
               /\ UNCHANGED <<display, alertBox>>
          ELSE /\ alertBox' = [by |-> "hit", winner |-> winner,
                           player |-> game.scores[PLAYER], dealer |-> Undefined]
               /\ endGame(t, winner)
  /\ UNCHANGED <<scoreVars, game, entered, table, decks>>

\* while (game.scores[DEALER] < 17): a comparison with undefined is false
dealerDraws(g) == g.scores[DEALER] # Undefined /\ g.scores[DEALER] < DealerStandsAt

\* stand() at its loop test: the next dealer fetch, or the deferred comparison
standLoop(g, turns) ==
  IF dealerDraws(g)
    THEN [Task("stand", "sent", NoName, g.deckId, DEALER) EXCEPT !.n = turns]
    ELSE Timer("standTimeout", Undefined)

\* click on stand-button: stand() up to its first await or to setTimeout
stand ==
  /\ entered
  /\ InFlight < MaxTasks
  /\ tasks' = Spawn(tasks, standLoop(game, 0))
  /\ UNCHANGED <<scoreVars, game, entered, display, alertBox, table, decks>>

\* a turn of stand()'s loop that stores the pile but not its score
standResumeKeepsScore(t) ==
  /\ t.op = "stand" /\ t.pc = "json"
  /\ game' = putPile(game, t, DEALER)
  /\ display' = updateGameDisplay(game')
  /\ tasks' = Become(tasks, t, standLoop(game', t.n + 1))
  /\ UNCHANGED <<scoreVars, entered, alertBox, table, decks>>

\* stand() after the awaits of one turn of its loop, round to the loop test
standResume(t) ==
  /\ t.op = "stand" /\ t.pc = "json"
  /\ LET drawn == putPile(game, t, DEALER)
     IN game' = [drawn EXCEPT !.scores[DEALER] = scorePlayer(drawn, DEALER)]
  /\ display' = updateGameDisplay(game')
  /\ tasks' = Become(tasks, t, standLoop(game', t.n + 1))
  /\ UNCHANGED <<scoreVars, entered, alertBox, table, decks>>

\* the callback stand() gave to setTimeout
standTimeout(t) ==
  /\ t.op = "standTimeout"
  /\ alertBox' = [by |-> "stand", winner |-> standWinner(game),
              player |-> game.scores[PLAYER], dealer |-> game.scores[DEALER]]
  /\ endGame(t, standWinner(game))
  /\ UNCHANGED <<scoreVars, game, entered, table, decks>>

\* endGame() after its awaits: game replaced, initGame()
endGameResume(t) ==
  /\ t.op = "endGame" /\ t.pc = "done"
  /\ game' = initGame(snapshot(game, t))
  /\ display' = updateGameDisplay(game')
  /\ tasks' = Finish(tasks, t)
  /\ UNCHANGED <<scoreVars, entered, alertBox, table, decks>>

\* ------------------------------------------------ scorePlayer on its own
\* scorePlayer called on the pile
ScoreApply ==
  /\ scoreOut = Undefined
  /\ scoreOut' = scoreCards(scoreIn)
  /\ scoreOp' = "apply"
  /\ UNCHANGED <<scoreIn, gameVars>>

\* the same cards in another order (two neighbours exchanged), scored again
ScorePermute(i) ==
  /\ scoreOut # Undefined
  /\ i \in 1..(Len(scoreIn) - 1)
  /\ scoreIn[i] # scoreIn[i + 1]
  /\ scoreIn' = [scoreIn EXCEPT ![i] = scoreIn[i + 1], ![i + 1] = scoreIn[i]]
  /\ scoreOp' = "permute"
  /\ scoreOut' = scoreCards(scoreIn')
  /\ UNCHANGED gameVars

\* the same cards with one ten written the other way (0 or 10), scored again
ScoreRetransmit(i) ==
  /\ scoreOut # Undefined
  /\ i \in 1..Len(scoreIn)
  /\ scoreIn[i] \in {"0", "10"}
  /\ scoreIn' = [scoreIn EXCEPT ![i] = IF @ = "0" THEN "10" ELSE "0"]
  /\ scoreOp' = "retransmit"
  /\ scoreOut' = scoreCards(scoreIn')
  /\ UNCHANGED gameVars

\* one more card on the pile, scored again
ScoreDraw(value) ==
  /\ scoreOut # Undefined
  /\ Len(scoreIn) < MaxLen
  /\ scoreIn' = Append(scoreIn, value)
  /\ scoreOp' = "draw"
  /\ scoreOut' = scoreCards(scoreIn')
  /\ UNCHANGED gameVars

\* --------------------------------------------------------- specifications
Piles(n) == UNION {[1..k -> CardValues] : k \in 0..n}

\* the page loaded, the server started, an empty table, no deck minted
InitGame ==
  /\ game = EmptyGame
  /\ entered = FALSE
  /\ display = [dealer |-> <<>>, player |-> <<>>, banner |-> <<Undefined, Undefined>>]
  /\ alertBox = [by |-> "", winner |-> "", player |-> Undefined, dealer |-> Undefined]
  /\ tasks = EmptyBag
  /\ table = <<>>
  /\ decks = <<>>

Init ==
  /\ scoreIn = <<>>
  /\ scoreOut = Undefined
  /\ scoreOp = ""
  /\ InitGame

Next ==
  \/ \E gameName \in GameNames : createOrJoinGame(gameName)
  \/ hit
  \/ stand
  \/ \E t \in Running : createOrJoinGameResume(t)
  \/ \E t \in Running : drawResponse(t)
  \/ \E t \in Running : hitResume(t)
  \/ \E t \in Running : hitTimeout(t)
  \/ \E t \in Running : standResume(t)
  \/ \E t \in Running : standTimeout(t)
  \/ \E t \in Running : endGameResume(t)
  \/ \E t \in Running : GetOrCreateSelect(t)
  \/ \E t \in Running : GetOrCreateNewDeck(t)
  \/ \E t \in Running : GetOrCreateInsert(t)
  \/ \E t \in Running : EndGameNewDeck(t)
  \/ \E t \in Running : EndGameUpdate(t)
  \/ \E t \in Running : EndGameSelect(t)
  \/ \E t \in Running : drawCardToHand(t)
  \/ \E t \in Running : drawCardToHandAdd(t)
  \/ \E t \in Running : ListPlayerPile(t)
  \/ \E t \in Running : ListDealerPile(t)
  \/ \E t \in Running : DrawRouteList(t)
  \/ \E t \in Running : RequestFails(t)

Spec == Init /\ [][Next]_vars

\* scorePlayer exercised on every pile of at most MaxLen cards
ScoreInit ==
  /\ scoreIn \in Piles(MaxLen)
  /\ scoreOut = Undefined
  /\ scoreOp = ""
  /\ InitGame

ScoreNext ==
  \/ ScoreApply
  \/ \E i \in 1..MaxLen : ScorePermute(i)
  \/ \E i \in 1..MaxLen : ScoreRetransmit(i)
  \/ \E value \in CardValues : ScoreDraw(value)

SpecScore == ScoreInit /\ [][ScoreNext]_vars

\* The dealer's turn on its own: the page has entered a game whose opening deal
\* left any two cards with the dealer, over any order of the cards that follow
\* on the deck; stand is clicked once on the idle page, every draw is answered
\* and every callback runs.
RECURSIVE CountOf(_, _)
CountOf(cards, value) ==
  IF cards = <<>> THEN 0
  ELSE (IF Head(cards) = value THEN 1 ELSE 0) + CountOf(Tail(cards), value)

\* a deck of 52 holds four cards of each value
FromOneDeck(cards) == \A value \in StandValues : CountOf(cards, value) <= 4

StandInit ==
  /\ scoreIn = <<>> /\ scoreOut = Undefined /\ scoreOp = ""
  /\ \E dp \in [1..2 -> StandValues], rest \in [1..StandDeckLen -> StandValues] :
       /\ FromOneDeck(StandPlayerPile \o dp \o rest)
       /\ decks = <<[cards |-> rest, player |-> StandPlayerPile, dealer |-> dp]>>
       /\ game = initGame([EmptyGame EXCEPT !.id = 1, !.gameName = "g1", !.deckId = 1,
                                           !.gamesWon = 0, !.gamesLost = 0,
                                           !.playerPile = StandPlayerPile,
                                           !.dealerPile = dp])
  /\ entered = TRUE
  /\ display = updateGameDisplay(game)
  /\ alertBox = [by |-> "", winner |-> "", player |-> Undefined, dealer |-> Undefined]
  /\ tasks = EmptyBag
  /\ table = <<NewRow("g1", 1)>>

StandNext ==
  \/ tasks = EmptyBag /\ stand
  \/ \E t \in Running : drawCardToHand(t)
  \/ \E t \in Running : drawCardToHandAdd(t)
  \/ \E t \in Running : DrawRouteList(t)
  \/ \E t \in Running : drawResponse(t)
  \/ \E t \in Running : standResume(t)
  \/ \E t \in Running : standTimeout(t)

\* every draw request is served and answered, every callback of the page runs
StandFairness ==
  /\ WF_vars(\E t \in Running : drawCardToHand(t))
  /\ WF_vars(\E t \in Running : drawCardToHandAdd(t))
  /\ WF_vars(\E t \in Running : DrawRouteList(t))
  /\ WF_vars(\E t \in Running : drawResponse(t))
  /\ WF_vars(\E t \in Running : standResume(t))
  /\ WF_vars(\E t \in Running : standTimeout(t))

SpecStand == StandInit /\ [][StandNext]_vars /\ StandFairness


\* ============================================================== the claims
RECURSIVE Occurrences(_, _)
Occurrences(cards, value) ==
  IF cards = <<>> THEN 0
  ELSE (IF Head(cards) = value THEN 1 ELSE 0) + Occurrences(Tail(cards), value)

\* the two piles hold the same cards, in any order
SameCards(a, b) == \A value \in CardValues : Occurrences(a, value) = Occurrences(b, value)

\* what a card is worth in blackjack, an ace taken as 1
Pip(value) ==
  CASE value \in {"2", "3", "4", "5", "6", "7", "8", "9"} ->
         CHOOSE k \in 2..9 : value = <<"2", "3", "4", "5", "6", "7", "8", "9">>[k - 1]
    [] value \in {"0", "10", "JACK", "QUEEN", "KING"} -> 10
    [] value = "ACE" -> 1

RECURSIVE HardTotal(_)
HardTotal(cards) == IF cards = <<>> THEN 0 ELSE Pip(Head(cards)) + HardTotal(Tail(cards))

\* the totals of a pile over every choice of 1 or 11 for each of its aces
Totals(cards) == {HardTotal(cards) + 10 * k : k \in 0..Occurrences(cards, "ACE")}

Max(S) == CHOOSE x \in S : \A y \in S : y <= x
Min(S) == CHOOSE x \in S : \A y \in S : x <= y

\* the blackjack total: the highest one not over 21, or the lowest one
BestTotal(cards) ==
  LET fit == {x \in Totals(cards) : x <= 21}
  IN IF fit # {} THEN Max(fit) ELSE Min(Totals(cards))

\* C1: scorePlayer gives the same total to the same cards in any order: a pile
\* rescored after two neighbouring cards changed places keeps its total (every
\* reordering is a sequence of such exchanges).
C1_OrderIndependent ==
  [][(scoreOp' = "permute" /\ SameCards(scoreIn, scoreIn')) => scoreOut' = scoreOut]_vars

\* C1 witness: an ace met first and counted as 1 in the end, after a reordering
C1_Witness ==
  /\ scoreOp = "permute"
  /\ scoreIn = <<"ACE", "KING", "9">>
  /\ scoreOut = 20

\* C2: scorePlayer returns the highest total not over 21 among the choices of 1
\* or 11 for each ace when there is one, and the total with every ace at 1
\* otherwise.
C2_BestTotal == scoreOut # Undefined => scoreOut = BestTotal(scoreIn)

\* C2 witness: two aces, one kept at 11 and one counted as 1
C2_Witness ==
  /\ scoreOut = 21
  /\ Occurrences(scoreIn, "ACE") = 2
  /\ Occurrences(scoreIn, "9") = 1
  /\ Len(scoreIn) = 3

\* the score the claim gives a pile of one card
SingleCardScore(value) ==
  CASE value = "2" -> 2 [] value = "3" -> 3 [] value = "4" -> 4 [] value = "5" -> 5
    [] value = "6" -> 6 [] value = "7" -> 7 [] value = "8" -> 8 [] value = "9" -> 9
    [] value \in {"0", "10"} -> 10
    [] value \in {"JACK", "QUEEN", "KING"} -> 10
    [] value = "ACE" -> 11

\* C3: the empty pile scores 0, a pile of one card scores its face value (10
\* for a ten sent as 0 or as 10 and for JACK, QUEEN, KING; 11 for ACE), and a
\* pile rescored after one of its tens changed between 0 and 10 keeps its total.
C3_EmptySingleAndTen ==
  /\ [](scoreOut # Undefined =>
          /\ (scoreIn = <<>> => scoreOut = 0)
          /\ (Len(scoreIn) = 1 => scoreOut = SingleCardScore(scoreIn[1])))
  /\ [][scoreOp' = "retransmit" => scoreOut' = scoreOut]_vars

\* C3 witness: a pile holding a ten in both spellings, scored after one changed
C3_Witness ==
  /\ scoreOp = "retransmit"
  /\ scoreIn = <<"0", "10", "ACE">>
  /\ scoreOut = 21


\* the endGame request the page sends for this winner
EndGameRequest(winner) == Task("endGame", "sent", game.gameName, Undefined, winner)

\* a pending callback of this kind runs in the step
Fires(t, op) == t.op = op /\ CopiesIn(t, tasks') < CopiesIn(t, tasks)

\* the step sends exactly one endGame request, for this winner
SendsEndGame(winner) ==
  /\ CopiesIn(EndGameRequest(winner), tasks') = CopiesIn(EndGameRequest(winner), tasks) + 1
  /\ \A t \in BagToSet(tasks') :
       (t.op = "endGame" /\ t # EndGameRequest(winner)) => CopiesIn(t, tasks') <= CopiesIn(t, tasks)

\* the step sends no endGame request
SendsNoEndGame ==
  \A t \in BagToSet(tasks') : t.op = "endGame" => CopiesIn(t, tasks') <= CopiesIn(t, tasks)

\* C4: when the winner comparison of stand() runs, the dealer score it reads
\* (and shows in its alert) is at least 17.
C4_DealerAtLeast17 == alertBox.by = "stand" => alertBox.dealer >= 17

\* C5: the comparison of stand() ends the round for the player exactly when the
\* dealer score is over 21 or below the player score, and for the dealer
\* otherwise, a tie included.
C5_StandWinner ==
  [][\A t \in Running : Fires(t, "standTimeout") =>
       LET p == game.scores[PLAYER]
           d == game.scores[DEALER]
           winner == IF d > 21 \/ d < p THEN PLAYER ELSE DEALER
       IN /\ SendsEndGame(winner)
          /\ alertBox' = [by |-> "stand", winner |-> winner, player |-> p, dealer |-> d]
          /\ (p = d /\ p <= 21 => winner = DEALER)]_vars

\* C5 witness: a tie below 22 was resolved, and the dealer won it
C5_Witness ==
  /\ alertBox.by = "stand"
  /\ alertBox.player = alertBox.dealer
  /\ alertBox.player <= 21
  /\ alertBox.winner = DEALER
  /\ \E t \in Running : t.op = "endGame" /\ t.who = DEALER

\* C6: the deferred check of a hit ends the round for the dealer when the score
\* that hit stored is over 21, for the player when it is 21, and sends no
\* endGame request otherwise.
C6_HitOutcome ==
  [][\A t \in Running : Fires(t, "hitTimeout") =>
       /\ (t.scored > 21 => SendsEndGame(DEALER))
       /\ (t.scored = 21 => SendsEndGame(PLAYER))
       /\ (t.scored < 21 => SendsNoEndGame)]_vars


\* pile a is what a listing of pile b gave at some time
IsPrefix(a, b) == Len(a) <= Len(b) /\ SubSeq(b, 1, Len(a)) = a

\* request t, dealing its n-th opening card, finds the piles of its deck as
\* an alternate deal leaves them and puts the card on the hand whose turn it is
DealsInTurn(t) ==
  LET hand == IF t.n % 2 = 1 THEN PLAYER ELSE DEALER
  IN /\ Len(decks[t.deckId].player) = t.n \div 2
     /\ Len(decks[t.deckId].dealer) = (t.n - 1) \div 2
     /\ decks'[t.deckId][hand] = Append(decks[t.deckId][hand], t.card)

\* the row of a game, when it has exactly one
RowOf(rows, gameName) == SelectGame(rows, gameName)[1]

\* the step adds one to exactly one counter of the game's row
BumpsOneCounter(gameName) ==
  LET old == RowOf(table, gameName)
      new == RowOf(table', gameName)
  IN \/ new.gamesWon = old.gamesWon + 1 /\ new.gamesLost = old.gamesLost
     \/ new.gamesLost = old.gamesLost + 1 /\ new.gamesWon = old.gamesWon

\* request t of this route leaves this pc in the step
Leaves(t, op, pc) == t.op = op /\ t.pc = pc /\ CopiesIn(t, tasks') < CopiesIn(t, tasks)

\* C7: the endGame route answers with the two piles of its new deck holding two
\* cards each, dealt player, dealer, player, dealer, and its UPDATE adds one to
\* exactly one of gamesWon and gamesLost of the game.
C7_RoundEndDeal ==
  /\ [](\A t \in Running :
          (t.op = "endGame" /\ t.pc = "done") =>
             /\ Len(t.playerPile) = 2 /\ Len(t.dealerPile) = 2
             /\ IsPrefix(t.playerPile, decks[t.deckId].player)
             /\ IsPrefix(t.dealerPile, decks[t.deckId].dealer))
  /\ [][\A t \in Running :
          /\ Leaves(t, "endGame", "add") => DealsInTurn(t)
          /\ Leaves(t, "endGame", "update") => BumpsOneCounter(t.gameName)]_vars

C9_CountersNeverDecrease ==
  [][/\ \A i \in 1..Len(table) :
          /\ table'[i].gamesWon >= table[i].gamesWon
          /\ table'[i].gamesLost >= table[i].gamesLost
     /\ game'.gameName = game.gameName =>
          /\ game'.gamesWon >= game.gamesWon
          /\ game'.gamesLost >= game.gamesLost]_vars

\* C10: once a game is entered, game.deckId is the deck whose piles the page's
\* piles are snapshots of and is the deckId of the game's row, and a round end
\* binds a deckId other than the one bound before.  The page is looked at when
\* it has no operation in flight: while the server ends a round its row is
\* already one deck ahead of the page that waits for the answer.
C10_DeckBacksPiles ==
  /\ []((entered /\ tasks = EmptyBag) =>
          /\ game.deckId \in 1..Len(decks)
          /\ IsPrefix(game.playerPile, decks[game.deckId].player)
          /\ IsPrefix(game.dealerPile, decks[game.deckId].dealer)
          /\ \E i \in 1..Len(table) :
               table[i].gameName = game.gameName /\ table[i].deckId = game.deckId)
  /\ [][\A t \in Running : Leaves(t, "endGame", "update") =>
          RowOf(table', t.gameName).deckId # RowOf(table, t.gameName).deckId]_vars

\* the requests of the page that wait for the server (timers are no requests)
Awaiting == {t \in Running : t.pc # "timeout"}

\* how many operations of the page wait for the server
AwaitingCount == BagCardinality([t \in Awaiting |-> CopiesIn(t, tasks)])

\* C11: at most one of createOrJoinGame, hit, stand and endGame waits for an
\* answer of the server at any time, whatever buttons are clicked.
C11_OneOperationInFlight == AwaitingCount <= 1

\* the endGame requests in flight
EndGamesInFlight ==
  BagCardinality([t \in {u \in Running : u.op = "endGame"} |-> CopiesIn(t, tasks)])

\* C12: a round is resolved once: each deferred check that resolves shows one
\* alert and sends one endGame request, and none resolves while the endGame
\* request of an earlier resolution is still unanswered (the round it ended is
\* still the one on the page).
C12_ResolvedOnce ==
  /\ [][\A t \in Running :
          /\ Fires(t, "standTimeout") =>
               alertBox'.by = "stand" /\ SendsEndGame(alertBox'.winner)
          /\ (Fires(t, "hitTimeout") /\ ~SendsNoEndGame) =>
               alertBox'.by = "hit" /\ SendsEndGame(alertBox'.winner)]_vars
  /\ [](EndGamesInFlight <= 1)

\* C13: once a game is entered, whenever the page is back in the event loop both
\* stored scores are the scores of the piles the page holds (the scores field
\* of the answer, an empty object, is never what is stored).
C13_ScoresOfPiles ==
  entered =>
    /\ game.scores[PLAYER] = scoreCards(game.playerPile)
    /\ game.scores[DEALER] = scoreCards(game.dealerPile)
    /\ game.scores[PLAYER] # Undefined /\ game.scores[DEALER] # Undefined

\* C13 witness: after a hit and a dealer draw the page holds two piles of three
\* cards and the scores of both
C13_Witness ==
  /\ entered
  /\ Len(game.playerPile) = 3 /\ Len(game.dealerPile) = 3
  /\ game.scores[PLAYER] = scoreCards(game.playerPile)
  /\ game.scores[DEALER] = scoreCards(game.dealerPile)

\* the request of operation t fails in the step
Fails(t) == t.pc = "sent" /\ tasks' = Finish(tasks, t)

\* C14: when a remote call of createOrJoinGame, hit, stand or endGame fails, the
\* operation has applied nothing to game: the failure itself leaves game as it
\* is, and the operation had not changed game before (t.n counts the turns of
\* stand()'s loop whose pile and score are already stored).  Only an operation
\* that is alone on the page is looked at, so that no other one changed game.
C14_FailureAppliesNothing ==
  [][\A t \in Running :
       (Fails(t) /\ tasks = SetToBag({t})) => game' = game /\ t.n = 0]_vars

\* C15: while the deferred check of a hit is pending nothing changes game, so
\* the check reads the player score that hit() stored when it scheduled it.
C15_CheckReadsHitScore ==
  [][\A t \in Running :
       /\ Fires(t, "hitTimeout") => game.scores[PLAYER] = t.scored
       /\ (t.op = "hitTimeout" /\ ~Fires(t, "hitTimeout")) => game' = game]_vars

\* the dealer draw requests of stand() in flight
DealerDrawsInFlight ==
  BagCardinality([t \in {u \in Running : u.op = "stand"} |-> CopiesIn(t, tasks)])

\* the step issues a dealer draw request
IssuesDealerDraw ==
  \E u \in BagToSet(tasks') :
    u.op = "stand" /\ u.pc = "sent" /\ CopiesIn(u, tasks') > CopiesIn(u, tasks)

\* C16: the dealer draws one card at a time: a dealer draw is requested only
\* with a stored dealer score below 17, the one of the piles as the last answer
\* left them, and never while another dealer draw is unanswered; a stand at 17
\* or more requests nothing.
C16_DealerDrawsSerial ==
  /\ [][IssuesDealerDraw =>
          /\ game'.scores[DEALER] < DealerStandsAt
          /\ game'.scores[DEALER] = scoreCards(game'.dealerPile)]_vars
  /\ [](DealerDrawsInFlight <= 1)

\* C18 as stated: a card put on a pile never lowers its score.
C18_DrawNeverLowers == [][scoreOp' = "draw" => scoreOut' >= scoreOut]_vars

\* C18 amended: a card put on a pile raises the total that counts every ace as
\* 1 by what the card counts, at least 1; the score never falls below that
\* total, rises when the pile counted no ace as 11, and otherwise drops by 9 at
\* most (the ace counted as 11 becomes a 1).
C18_DrawAddsHardValue ==
  [][scoreOp' = "draw" =>
       /\ HardTotal(scoreIn') = HardTotal(scoreIn) + Pip(scoreIn'[Len(scoreIn')])
       /\ HardTotal(scoreIn') > HardTotal(scoreIn)
       /\ scoreOut' >= HardTotal(scoreIn')
       /\ (scoreOut = HardTotal(scoreIn) => scoreOut' > scoreOut)
       /\ scoreOut' >= scoreOut - 9]_vars

\* C18 witness: a 5 drawn to ACE, 9 takes the score from 20 to 15
C18_Witness ==
  /\ scoreOp = "draw"
  /\ scoreIn = <<"ACE", "9", "5">>
  /\ scoreOut = 15

\* the piles of every deck are what they were
PilesUnchanged ==
  /\ Len(decks') = Len(decks)
  /\ \A d \in 1..Len(decks) :
       decks'[d].player = decks[d].player /\ decks'[d].dealer = decks[d].dealer

\* the other hand
Other(hand) == IF hand = PLAYER THEN DEALER ELSE PLAYER

\* C19: a request of the draw route puts the card it drew on the pile of its
\* role in its deck, once, and changes no other pile and no row; on the page a
\* hit changes only playerPile and the player score, a dealer draw only
\* dealerPile and the dealer score.
C19_DrawFrame ==
  [][\A t \in Running :
       /\ (t.op \in {"hit", "stand"} /\ Leaves(t, t.op, t.pc)) =>
            /\ table' = table
            /\ t.pc # "add" => PilesUnchanged
            /\ t.pc = "add" =>
                 /\ decks' = [decks EXCEPT ![t.deckId][t.who] = Append(@, t.card)]
                 /\ decks'[t.deckId][Other(t.who)] = decks[t.deckId][Other(t.who)]
       /\ Leaves(t, "hit", "json") =>
            game' = [game EXCEPT !.playerPile = game'.playerPile,
                                 !.scores[PLAYER] = game'.scores[PLAYER]]
       /\ Leaves(t, "stand", "json") =>
            game' = [game EXCEPT !.dealerPile = game'.dealerPile,
                                 !.scores[DEALER] = game'.scores[DEALER]]]_vars

\* C19 witness: the page holds a dealer pile of three cards after a dealer draw
\* and a hit request has put a third card on the player's pile of the deck
C19_Witness ==
  /\ Len(game.dealerPile) = 3
  /\ \E t \in Running :
       /\ t.op = "hit" /\ t.pc = "list"
       /\ Len(decks[t.deckId].player) = 3
       /\ decks[t.deckId].dealer = game.dealerPile

\* C20: from the click on stand until the deferred comparison has run, the
\* player's pile and score of the game object on the page are not changed.
C20_PlayerFrozenAfterStand ==
  [][((\E t \in Running : t.op \in {"stand", "standTimeout"}) /\ game'.id = game.id) =>
       /\ game'.playerPile = game.playerPile
       /\ game'.scores[PLAYER] = game.scores[PLAYER]]_vars

\* stand() is in its loop or its comparison is still pending
StandRunning == \E t \in Running : t.op \in {"stand", "standTimeout"}

\* C17: when every draw request is answered with a card, every stand() leaves
\* its loop and its deferred comparison runs and names a winner.
C17_StandResolves == StandRunning ~> (~StandRunning /\ alertBox.by = "stand")

\* C17 witness: the dealer drew three cards in a row, and the round was resolved
C17_Witness ==
  /\ ~StandRunning
  /\ alertBox.by = "stand"
  /\ Len(game.dealerPile) = 5
  /\ \E t \in Running : t.op = "endGame"

====
